---- MODULE Spec2Model ----
(***************************************************************************)
(* OpenRide / OpenSeat: the booking verification engine (booking           *)
(* lifecycle, verification token, redemption) as documented in             *)
(* backend/BLOCKCHAIN_GUIDE.md and backend/IMPLEMENTATION_SUMMARY.md, and   *)
(* the rider dashboard of the Next.js frontend (search, booking modal,     *)
(* handleBooking); the match scorer and the token validation of the        *)
(* backend documents; the checkout page with the Interswitch modal and the *)
(* payment callback page of the frontend.                                  *)
(*                                                                         *)
(* Booking states use the names of the specification; the documents call   *)
(* them PENDING (created), CONFIRMED (token_issued) and COMPLETED          *)
(* (redeemed).                                                             *)
(***************************************************************************)
EXTENDS Integers, Sequences, FiniteSets, TLC

(***************************************************************************)
(* Bounds of the model                                                     *)
(***************************************************************************)
NumCandidates == 1
Capacity == 2
MaxBookings == 2
MaxTicks == 2
NumRedeemers == 2
MaxUIBookings == 2
MaxCandidates == 2

(***************************************************************************)
(* Program constants                                                       *)
(***************************************************************************)
\* 24 hours in seconds: block.timestamp - timestamp < 86400
TTL == 86400
\* price of one seat on a backend route (3000.00 for 2 seats)
PricePerSeat == 1500

Candidates == 1..NumCandidates
BookingIds == 1..MaxBookings
Redeemers == 1..NumRedeemers
SeatChoices == 1..Capacity
\* the driver of a candidate route; every other driver is a stranger to it
DriverOf(c) == c
Drivers == 0..NumCandidates
Amounts == {0} \cup {n * PricePerSeat : n \in SeatChoices}
TimeSteps == {1, TTL}

VARIABLES
    \* ---- backend: booking verification engine
    booking,      \* booking id -> [state, cand, seats, amount]
    tokens,       \* set of [bookingId, timestamp, expiresAt, redeemed]
    avail,        \* candidate -> seats still available
    now,          \* the clock, in seconds
    ticks,        \* how often the clock was advanced
    calls,        \* redeem request of each concurrent handler
    last,         \* the last create, confirmPayment, verify or cancel and its result
    \* ---- frontend: rider dashboard
    bookings,         \* RiderDashboard state: list of bookings
    searchResults,    \* RiderDashboard state
    hasSearched,      \* RiderDashboard state
    activeTab,        \* RiderDashboard state
    selectedRoute,    \* SearchResults state
    showBookingModal, \* SearchResults state
    seats,            \* BookingModal state
    \* ---- route search as a function of the route list
    candidates,       \* the routes handleSearch filters and sorts
    query,            \* the search parameters of the last search, if any
    ranked,           \* what the last search returned
    \* ---- backend: match scorer
    scoreInput,       \* the query and the candidate handed to the scorer
    matchResult,      \* what the scorer returned for them
    \* ---- backend: token validation
    storedBooking,    \* the booking details the store holds
    tokenPayload,     \* the token text handed to validate
    validation,       \* what validate returned for it
    \* ---- frontend: checkout page and Interswitch modal
    pageStep,         \* CheckoutPage state step
    paymentParams,    \* InterswitchModal prop
    modalStep,        \* InterswitchModal state step, "none" while not mounted
    scriptLoaded,     \* InterswitchModal state
    errorMessage,     \* InterswitchModal state
    script,           \* the inline checkout script element of the modal
    gateway,          \* "open" while webpayCheckout awaits its completion
    successTimer,     \* the setTimeout that calls onSuccess is pending
    lastResp,         \* response.resp of the last completion callback
    \* ---- frontend: payment callback page
    status,           \* PaymentCallback state: verifying, success, failed, error
    message,          \* PaymentCallback state
    searchParams,     \* query parameters of the URL of the page
    localStorage,     \* pending_payment_ref and pending_booking_id
    request,          \* the POST /payments/verify of verifyPayment
    response,         \* what came back for it
    redirectTimer,    \* where the pending setTimeout will push the router
    pathname          \* the route the browser shows

engineVars == <<booking, tokens, avail, now, ticks, calls, last>>
uiVars == <<bookings, searchResults, hasSearched, activeTab, selectedRoute,
            showBookingModal, seats>>
searchVars == <<candidates, query, ranked>>
scoreVars == <<scoreInput, matchResult>>
\* the state of the parts added after the route search
validateVars == <<storedBooking, tokenPayload, validation>>
checkoutVars == <<pageStep, paymentParams, modalStep, scriptLoaded, errorMessage,
                  script, gateway, successTimer, lastResp>>
callbackVars == <<status, message, searchParams, localStorage, request, response,
                  redirectTimer, pathname>>
restVars == <<scoreVars, validateVars, checkoutVars, callbackVars>>
vars == <<booking, tokens, avail, now, ticks, calls, last, bookings,
          searchResults, hasSearched, activeTab, selectedRoute,
          showBookingModal, seats, candidates, query, ranked, restVars>>

NoBooking == [state |-> "none", cand |-> 0, seats |-> 0, amount |-> 0]
NoCall == [phase |-> "idle", b |-> 0, drv |-> 0, res |-> "none", valid |-> FALSE]
NoLast == [op |-> "none", b |-> 0, res |-> "none"]

Exists(b) == b \in BookingIds /\ booking[b].state # "none"

(***************************************************************************)
(* Token engine                                                            *)
(***************************************************************************)
TokensOf(b) == {t \in tokens : t.bookingId = b}
TokenOf(b) == CHOOSE t \in tokens : t.bookingId = b

\* generate_booking_token(): timestamp, expiresAt = timestamp + 24 h
generate_booking_token(b, t) ==
    [bookingId |-> b, timestamp |-> t, expiresAt |-> t + TTL, redeemed |-> FALSE]

\* mintToken without its "Token already exists" requirement
mintToken_NoExistsCheck(toks, b, t) == toks \cup {generate_booking_token(b, t)}

\* mintToken: require(tokens[tokenId].timestamp == 0, "Token already exists")
mintToken(toks, b, t) ==
    IF \E x \in toks : x.bookingId = b THEN toks
    ELSE toks \cup {generate_booking_token(b, t)}

\* a token that never expires
validate_token_timestamp_NoCheck(tok, t) == TRUE

\* validate_token_timestamp(): block.timestamp - timestamp < 86400
validate_token_timestamp(tok, t) == t - tok.timestamp < TTL

\* redeemToken: tokens[tokenId].redeemed = true
redeemToken(toks, b) ==
    {IF x.bookingId = b THEN [x EXCEPT !.redeemed = TRUE] ELSE x : x \in toks}

\* the validation checks with the expiration check (4) left out
verify_booking_token_NoExpiryCheck(b, t) ==
    IF ~Exists(b) \/ TokensOf(b) = {} THEN "unknown_token"
    ELSE IF TokenOf(b).redeemed THEN "already_redeemed"
    ELSE IF booking[b].state # "token_issued" THEN "payment_not_confirmed"
    ELSE "valid"

\* the validation checks with the redemption status check (5) left out
verify_booking_token_NoRedeemedCheck(b, t) ==
    IF ~Exists(b) \/ TokensOf(b) = {} THEN "unknown_token"
    ELSE IF ~validate_token_timestamp(TokenOf(b), t) THEN "expired"
    ELSE IF booking[b].state \notin {"token_issued", "redeemed"}
         THEN "payment_not_confirmed"
    ELSE "valid"

\* the validation checks with the payment confirmation check (6) left out
verify_booking_token_NoPaymentCheck(b, t) ==
    IF ~Exists(b) \/ TokensOf(b) = {} THEN "unknown_token"
    ELSE IF ~validate_token_timestamp(TokenOf(b), t) THEN "expired"
    ELSE IF TokenOf(b).redeemed THEN "already_redeemed"
    ELSE "valid"

\* verify_booking_token(): the backend's validation checks, in their order:
\* (1-3) the token is the booking's, (4) expiration, (5) redemption status,
\* (6) payment confirmation
verify_booking_token(b, t) ==
    IF ~Exists(b) \/ TokensOf(b) = {} THEN "unknown_token"
    ELSE IF ~validate_token_timestamp(TokenOf(b), t) THEN "expired"
    ELSE IF TokenOf(b).redeemed THEN "already_redeemed"
    ELSE IF booking[b].state # "token_issued" THEN "payment_not_confirmed"
    ELSE "valid"

\* GET /api/bookings/{booking_id}/verify: the response shown to the driver
verify(b, t) ==
    [message |-> verify_booking_token(b, t),
     verified |-> verify_booking_token(b, t) = "valid",
     is_redeemed |-> Exists(b) /\ TokensOf(b) # {} /\ TokenOf(b).redeemed,
     is_expired |-> Exists(b) /\ TokensOf(b) # {}
                    /\ ~validate_token_timestamp(TokenOf(b), t)]

\* the outcomes of a verification; the token is looked up by booking id, so a
\* malformed token is never presented to this endpoint
Outcomes == {"valid", "already_redeemed", "expired", "payment_not_confirmed",
             "unknown_token", "malformed_token"}

\* redeem without the driver authorization check (7)
redeemResult_NoDriverCheck(b, d, t) ==
    LET m == verify_booking_token(b, t) IN
    IF m = "unknown_token" THEN "UnknownBookingError"
    ELSE IF m = "expired" THEN "ExpiredError"
    ELSE IF m = "already_redeemed" THEN "AlreadyRedeemedError"
    ELSE IF m = "payment_not_confirmed" THEN "StateError"
    ELSE "ok"

\* POST /api/bookings/{booking_id}/redeem: what the call returns; the driver
\* authorization check (7) comes after the validation checks
redeemResult(b, d, t) ==
    LET m == verify_booking_token(b, t) IN
    IF m = "unknown_token" THEN "UnknownBookingError"
    ELSE IF m = "expired" THEN "ExpiredError"
    ELSE IF m = "already_redeemed" THEN "AlreadyRedeemedError"
    ELSE IF m = "payment_not_confirmed" THEN "StateError"
    ELSE IF d # DriverOf(booking[b].cand) THEN "UnauthorizedError"
    ELSE "ok"

(***************************************************************************)
(* Seat counter of the route store: reserve N seats / release N seats      *)
(***************************************************************************)
HasCapacity(c, n) == n <= avail[c]
reserveSeats(av, c, n) == [av EXCEPT ![c] = @ - n]
\* a release that gives no seat back
releaseSeats_NoRelease(av, c, n) == av
releaseSeats(av, c, n) == [av EXCEPT ![c] = @ + n]

\* seats held by the bookings of a candidate that were not cancelled
Booked(c) ==
    LET held == {b \in BookingIds : booking[b].state \notin {"none", "cancelled"}
                                    /\ booking[b].cand = c}
        sum[S \in SUBSET BookingIds] ==
            IF S = {} THEN 0
            ELSE LET x == CHOOSE y \in S : TRUE
                 IN booking[x].seats + sum[S \ {x}]
    IN sum[held]

(***************************************************************************)
(* Booking lifecycle controller                                            *)
(***************************************************************************)
NextId == CHOOSE b \in BookingIds :
            booking[b].state = "none" /\ \A x \in 1..(b - 1) : booking[x].state # "none"

\* POST /api/bookings: create the booking (PENDING) with its token
CreateBooking(c, n) ==
    /\ \E b \in BookingIds : booking[b].state = "none"
    /\ IF ~HasCapacity(c, n)
       THEN /\ last' = [op |-> "create", b |-> 0, res |-> "CapacityError"]
            /\ UNCHANGED <<booking, tokens, avail>>
       ELSE /\ booking' = [booking EXCEPT ![NextId] =
                    [state |-> "created", cand |-> c, seats |-> n,
                     amount |-> n * PricePerSeat]]
            /\ avail' = reserveSeats(avail, c, n)
            /\ tokens' = mintToken(tokens, NextId, now)
            /\ last' = [op |-> "create", b |-> NextId, res |-> "ok"]
    /\ UNCHANGED <<now, ticks, calls>>
    /\ UNCHANGED uiVars
    /\ UNCHANGED searchVars
    /\ UNCHANGED restVars

\* confirmPayment that does not look at the booking's state
confirmResult_NoStateCheck(b, amountPaid) ==
    IF ~Exists(b) THEN "UnknownBookingError"
    ELSE IF amountPaid # booking[b].seats * PricePerSeat THEN "AmountMismatchError"
    ELSE "ok"

\* confirmPayment that does not compare the amount paid
confirmResult_NoAmountCheck(b, amountPaid) ==
    IF ~Exists(b) THEN "UnknownBookingError"
    ELSE IF booking[b].state # "created" THEN "StateError"
    ELSE "ok"

\* result of confirmPayment(bookingId, amountPaid)
confirmResult(b, amountPaid) ==
    IF ~Exists(b) THEN "UnknownBookingError"
    ELSE IF booking[b].state # "created" THEN "StateError"
    ELSE IF amountPaid # booking[b].seats * PricePerSeat THEN "AmountMismatchError"
    ELSE "ok"

\* callback paymentConfirmed: created -> paid -> token_issued (token ACTIVE)
ConfirmPayment(b, amountPaid) ==
    /\ last' = [op |-> "confirmPayment", b |-> b, res |-> confirmResult(b, amountPaid)]
    /\ IF confirmResult(b, amountPaid) = "ok"
       THEN /\ booking' = [booking EXCEPT ![b].state = "token_issued"]
            /\ tokens' = mintToken(tokens, b, now)
       ELSE UNCHANGED <<booking, tokens>>
    /\ UNCHANGED <<avail, now, ticks, calls>>
    /\ UNCHANGED uiVars
    /\ UNCHANGED searchVars
    /\ UNCHANGED restVars

\* a verify that, like redeem, moves a booking past its TTL to expired
Verify_ExpiresBooking(b) ==
    /\ last' = [op |-> "verify", b |-> b, res |-> verify(b, now).message]
    /\ booking' = IF verify(b, now).message = "expired"
                  THEN [booking EXCEPT ![b].state = "expired"]
                  ELSE booking
    /\ UNCHANGED <<tokens, avail, now, ticks, calls>>
    /\ UNCHANGED uiVars
    /\ UNCHANGED searchVars
    /\ UNCHANGED restVars

\* GET /api/bookings/{id}/verify: read-only
Verify(b) ==
    /\ last' = [op |-> "verify", b |-> b, res |-> verify(b, now).message]
    /\ UNCHANGED <<booking, tokens, avail, now, ticks, calls>>
    /\ UNCHANGED uiVars
    /\ UNCHANGED searchVars
    /\ UNCHANGED restVars

\* the token of b is valid for boarding or was already used for it: the booking
\* is paid and the token's 24 hours have not passed
ValidToken(b) ==
    /\ Exists(b) /\ TokensOf(b) # {}
    /\ booking[b].state \in {"token_issued", "redeemed"}
    /\ now < TokenOf(b).expiresAt

\* a request handler receives POST /api/bookings/{id}/redeem from driver d,
\* who scanned the QR code of booking b
RedeemInvoke(p, b, d) ==
    /\ calls[p].phase = "idle"
    /\ Exists(b)
    /\ calls' = [calls EXCEPT ![p] = [NoCall EXCEPT !.phase = "pending", !.b = b, !.drv = d]]
    /\ UNCHANGED <<booking, tokens, avail, now, ticks, last>>
    /\ UNCHANGED uiVars
    /\ UNCHANGED searchVars
    /\ UNCHANGED restVars

\* the handler's transaction on the booking: check and flip in one step
RedeemExec(p) ==
    /\ calls[p].phase = "pending"
    /\ LET b == calls[p].b
           r == redeemResult(b, calls[p].drv, now)
       IN /\ calls' = [calls EXCEPT ![p] =
                  [@ EXCEPT !.phase = "done", !.res = r, !.drv = 0,
                            !.valid = ValidToken(b) /\ calls[p].drv = DriverOf(booking[b].cand)]]
          /\ IF r = "ok"
             THEN /\ tokens' = redeemToken(tokens, b)
                  /\ booking' = [booking EXCEPT ![b].state = "redeemed"]
             ELSE IF r = "ExpiredError" /\ booking[b].state = "token_issued"
             THEN /\ booking' = [booking EXCEPT ![b].state = "expired"]
                  /\ UNCHANGED tokens
             ELSE UNCHANGED <<booking, tokens>>
    /\ UNCHANGED <<avail, now, ticks, last>>
    /\ UNCHANGED uiVars
    /\ UNCHANGED searchVars
    /\ UNCHANGED restVars

\* cancel that does not look at the booking's state
cancelResult_NoStateCheck(b) ==
    IF ~Exists(b) THEN "UnknownBookingError" ELSE "ok"

\* result of cancel(bookingId, actor)
cancelResult(b) ==
    IF ~Exists(b) THEN "UnknownBookingError"
    ELSE IF booking[b].state \notin {"created", "paid"} THEN "StateError"
    ELSE "ok"

\* DELETE /api/bookings/{id}: cancel, releasing the reserved seats
Cancel(b) ==
    /\ last' = [op |-> "cancel", b |-> b, res |-> cancelResult(b)]
    /\ IF cancelResult(b) = "ok"
       THEN /\ booking' = [booking EXCEPT ![b].state = "cancelled"]
            /\ avail' = releaseSeats(avail, booking[b].cand, booking[b].seats)
       ELSE UNCHANGED <<booking, avail>>
    /\ UNCHANGED <<tokens, now, ticks, calls>>
    /\ UNCHANGED uiVars
    /\ UNCHANGED searchVars
    /\ UNCHANGED restVars

\* time passes
Tick(d) ==
    /\ ticks < MaxTicks
    /\ now' = now + d
    /\ ticks' = ticks + 1
    /\ UNCHANGED <<booking, tokens, avail, calls, last>>
    /\ UNCHANGED uiVars
    /\ UNCHANGED searchVars
    /\ UNCHANGED restVars

(***************************************************************************)
(* Rider dashboard (frontend)                                              *)
(***************************************************************************)
\* const allRoutes: the sample routes data of the rider dashboard
allRoutes == <<
    [id |-> 1, from |-> "Ogba", to |-> "VI", departureTime |-> <<6, 30, "AM">>,
     driverRating |-> 49,
     availableSeats |-> 3, pricePerSeat |-> 1500, aiScore |-> 95, bookings |-> 2],
    [id |-> 2, from |-> "Ikeja", to |-> "Lekki", departureTime |-> <<7, 0, "AM">>,
     driverRating |-> 48,
     availableSeats |-> 2, pricePerSeat |-> 2000, aiScore |-> 88, bookings |-> 1],
    [id |-> 3, from |-> "Surulere", to |-> "CMS", departureTime |-> <<6, 45, "AM">>,
     driverRating |-> 47,
     availableSeats |-> 4, pricePerSeat |-> 1200, aiScore |-> 92, bookings |-> 0],
    [id |-> 4, from |-> "Festac", to |-> "Marina", departureTime |-> <<7, 15, "AM">>,
     driverRating |-> 50,
     availableSeats |-> 2, pricePerSeat |-> 1800, aiScore |-> 96, bookings |-> 2] >>

RouteIds == 1..Len(allRoutes)

\* const locations of the search form
locations == {"Ogba", "Ikeja", "Lekki", "VI", "Surulere", "Festac", "Marina", "Yaba"}

\* the options of the time range select: "06:00-08:00" is <<<<6, 0>>, <<8, 0>>>>
timeRanges == {<<<<6, 0>>, <<8, 0>>>>, <<<<7, 0>>, <<9, 0>>>>,
               <<<<6, 0>>, <<9, 0>>>>, <<<<5, 30>>, <<9, 0>>>>}

\* Number.parseInt(text.split(":")[0]) of "6:30 AM" or "05:30": the hour alone;
\* the minutes and AM/PM are not read
parseHour(text) == text[1]

\* route.from.toLowerCase().includes(from.toLowerCase()): no name among the
\* routes and the locations is a proper substring of another one, so on these
\* names a substring match is a match of the whole name
includes(name, part) == name = part

\* the filter of handleSearch without its availableSeats > 0 condition
matches_NoSeatCheck(route, from, to, timeRange) ==
    /\ includes(route.from, from)
    /\ includes(route.to, to)
    /\ parseHour(route.departureTime) >= parseHour(timeRange[1])
    /\ parseHour(route.departureTime) <= parseHour(timeRange[2])

matches_StartHourExcluded(route, from, to, timeRange) ==
    /\ includes(route.from, from)
    /\ includes(route.to, to)
    /\ parseHour(route.departureTime) > parseHour(timeRange[1])
    /\ parseHour(route.departureTime) <= parseHour(timeRange[2])
    /\ route.availableSeats > 0

\* the filter of handleSearch
matches(route, from, to, timeRange) ==
    /\ includes(route.from, from)
    /\ includes(route.to, to)
    /\ parseHour(route.departureTime) >= parseHour(timeRange[1])
    /\ parseHour(route.departureTime) <= parseHour(timeRange[2])
    /\ route.availableSeats > 0

\* Array.prototype.sort with (a, b) => b.aiScore - a.aiScore: stable, descending
RECURSIVE sortByAiScore(_)
sortByAiScore(rs) ==
    IF Len(rs) <= 1 THEN rs
    ELSE LET best == CHOOSE i \in 1..Len(rs) :
                        /\ \A j \in 1..Len(rs) : rs[j].aiScore <= rs[i].aiScore
                        /\ \A j \in 1..(i - 1) : rs[j].aiScore < rs[i].aiScore
             rest == [k \in 1..(Len(rs) - 1) |-> IF k < best THEN rs[k] ELSE rs[k + 1]]
         IN <<rs[best]>> \o sortByAiScore(rest)

\* allRoutes.filter(...) of handleSearch, for a list of routes
filtered(rs, from, to, timeRange) ==
    SelectSeq(rs, LAMBDA route : matches(route, from, to, timeRange))

\* what handleSearch passes to setSearchResults, for a list of routes
handleSearch(rs, from, to, timeRange) ==
    sortByAiScore(filtered(rs, from, to, timeRange))

\* RiderDashboard.handleSearch, called by the search form when from and to are set
HandleSearch(from, to, timeRange) ==
    /\ activeTab = "search"
    /\ ~showBookingModal
    /\ searchResults' =
           LET found == handleSearch(allRoutes, from, to, timeRange)
           IN [k \in 1..Len(found) |-> found[k].id]
    /\ hasSearched' = TRUE
    /\ UNCHANGED <<bookings, activeTab, selectedRoute, showBookingModal, seats>>
    /\ UNCHANGED engineVars
    /\ UNCHANGED searchVars
    /\ UNCHANGED restVars

\* the "Book Seat" button of a search result: the booking modal opens with 1 seat
BookSeat(r) ==
    /\ activeTab = "search"
    /\ hasSearched
    /\ ~showBookingModal
    /\ \E i \in 1..Len(searchResults) : searchResults[i] = r
    /\ selectedRoute' = r
    /\ showBookingModal' = TRUE
    /\ seats' = 1
    /\ UNCHANGED <<bookings, searchResults, hasSearched, activeTab>>
    /\ UNCHANGED engineVars
    /\ UNCHANGED searchVars
    /\ UNCHANGED restVars

Min(x, y) == IF x <= y THEN x ELSE y
Max(x, y) == IF x >= y THEN x ELSE y

\* the plus button: setSeats(Math.min(route.availableSeats, seats + 1))
SeatsPlus ==
    /\ showBookingModal
    /\ seats' = Min(allRoutes[selectedRoute].availableSeats, seats + 1)
    /\ UNCHANGED <<bookings, searchResults, hasSearched, activeTab, selectedRoute,
                   showBookingModal>>
    /\ UNCHANGED engineVars
    /\ UNCHANGED searchVars
    /\ UNCHANGED restVars

\* the minus button: setSeats(Math.max(1, seats - 1))
SeatsMinus ==
    /\ showBookingModal
    /\ seats' = Max(1, seats - 1)
    /\ UNCHANGED <<bookings, searchResults, hasSearched, activeTab, selectedRoute,
                   showBookingModal>>
    /\ UNCHANGED engineVars
    /\ UNCHANGED searchVars
    /\ UNCHANGED restVars

\* onClose of the modal (X or Cancel); the modal's seat count goes with it
OnClose ==
    /\ showBookingModal
    /\ showBookingModal' = FALSE
    /\ seats' = 1
    /\ UNCHANGED <<bookings, searchResults, hasSearched, activeTab, selectedRoute>>
    /\ UNCHANGED engineVars
    /\ UNCHANGED searchVars
    /\ UNCHANGED restVars

\* RiderDashboard.handleBooking: the new list of bookings
handleBooking(bks, routeId, n) ==
    IF \E i \in RouteIds : allRoutes[i].id = routeId
    THEN LET route == allRoutes[CHOOSE i \in RouteIds : allRoutes[i].id = routeId]
         IN Append(bks, [routeId |-> routeId, status |-> "Confirmed", seats |-> n,
                         totalPrice |-> route.pricePerSeat * n])
    ELSE bks

\* onConfirm of the modal ("Proceed to Payment"): onBook(selectedRoute.id, seats)
\* and setShowBookingModal(false)
OnConfirm ==
    /\ showBookingModal
    /\ Len(bookings) < 1 + MaxUIBookings
    /\ bookings' = handleBooking(bookings, allRoutes[selectedRoute].id, seats)
    /\ activeTab' = "bookings"
    /\ showBookingModal' = FALSE
    /\ seats' = 1
    /\ UNCHANGED <<searchResults, hasSearched, selectedRoute>>
    /\ UNCHANGED engineVars
    /\ UNCHANGED searchVars
    /\ UNCHANGED restVars

\* a click on a tab trigger
SetActiveTab(tab) ==
    /\ ~showBookingModal
    /\ activeTab' = tab
    /\ UNCHANGED <<bookings, searchResults, hasSearched, selectedRoute,
                   showBookingModal, seats>>
    /\ UNCHANGED engineVars
    /\ UNCHANGED searchVars
    /\ UNCHANGED restVars

\* what the capacity line of a route card shows as the total
capacityOf(r) == allRoutes[r].bookings + allRoutes[r].availableSeats

\* seats of route r booked through handleBooking, up to booking number k
RECURSIVE seatsBookedUpTo(_, _)
seatsBookedUpTo(r, k) ==
    IF k <= 1 THEN 0
    ELSE seatsBookedUpTo(r, k - 1)
         + (IF bookings[k].routeId = allRoutes[r].id THEN bookings[k].seats ELSE 0)

\* seats of route r that are booked: those the route came with and those
\* booked through handleBooking
bookedSeats(r) == allRoutes[r].bookings + seatsBookedUpTo(r, Len(bookings))

(***************************************************************************)
(* Match scorer (backend): score(query, candidate) with the scoring system *)
(* of backend/IMPLEMENTATION_SUMMARY.md                                    *)
(***************************************************************************)
\* weights of the four factors, in percent
LocationWeight == 40
TimeWeight == 30
EfficiencyWeight == 20
AvailabilityWeight == 10

\* minutes since midnight of a time of day: "6:30 AM" is <<6, 30, "AM">> and
\* "06:00" is <<6, 0>>
MinuteOfDay(text) ==
    (IF Len(text) = 3 /\ text[3] = "PM" /\ text[1] # 12 THEN text[1] + 12 ELSE text[1])
        * 60 + text[2]

\* what the proximity table says about two locations: same district or group
\* (region), one in the adjacency set of the other (adjacent), same broad
\* region (area)
ProximityFacts == [region : BOOLEAN, adjacent : BOOLEAN, area : BOOLEAN]

locationScore_AdjacencyFirst(queryLoc, candLoc, facts) ==
    IF candLoc = queryLoc THEN 100
    ELSE IF facts.adjacent THEN 60
    ELSE IF facts.region THEN 80
    ELSE IF facts.area THEN 40
    ELSE 0

\* location similarity: exact > region > adjacency > default
locationScore(queryLoc, candLoc, facts) ==
    IF candLoc = queryLoc THEN 100
    ELSE IF facts.region THEN 80
    ELSE IF facts.adjacent THEN 60
    ELSE IF facts.area THEN 40
    ELSE 0

\* the preferred time of the query: the midpoint of the requested window
timeAnchor(window) == (MinuteOfDay(window[1]) + MinuteOfDay(window[2])) \div 2

\* minutes between the departure of the candidate and the anchor
timeGap(window, departure) ==
    IF MinuteOfDay(departure) >= timeAnchor(window)
    THEN MinuteOfDay(departure) - timeAnchor(window)
    ELSE timeAnchor(window) - MinuteOfDay(departure)

timeScore_SwappedTiers(gap) ==
    IF gap <= 15 THEN 100
    ELSE IF gap <= 30 THEN 60
    ELSE IF gap <= 60 THEN 80
    ELSE IF gap <= 120 THEN 40
    ELSE 0

\* time compatibility
timeScore(gap) ==
    IF gap <= 15 THEN 100
    ELSE IF gap <= 30 THEN 80
    ELSE IF gap <= 60 THEN 60
    ELSE IF gap <= 120 THEN 40
    ELSE 0

\* route efficiency: direct path, minimal detour, moderate detour, and a lower
\* floor for everything longer
efficiencyScore(detour) ==
    IF detour = "direct" THEN 100
    ELSE IF detour = "minimal" THEN 80
    ELSE IF detour = "moderate" THEN 60
    ELSE 40

\* availability bonus: seats available, high rating, verified driver
availabilityScore(availableSeats, highRating, verified) ==
    (IF availableSeats > 0 THEN 40 ELSE 0)
        + (IF highRating THEN 30 ELSE 0)
        + (IF verified THEN 30 ELSE 0)

\* round(n / d) of Python, halves to the even neighbour
round(n, d) ==
    LET q == n \div d
        r == n % d
    IN  IF 2 * r < d THEN q
        ELSE IF 2 * r > d THEN q + 1
        ELSE IF q % 2 = 0 THEN q ELSE q + 1

finalScore_WrongWeights(location, time, efficiency, availability) ==
    round(50 * location + TimeWeight * time + EfficiencyWeight * efficiency
              + AvailabilityWeight * availability, 100)

\* round(0.4 location + 0.3 time + 0.2 efficiency + 0.1 availability)
finalScore(location, time, efficiency, availability) ==
    round(LocationWeight * location + TimeWeight * time
              + EfficiencyWeight * efficiency
              + AvailabilityWeight * availability, 100)

\* the filters applied before scoring: seats left, departure inside the
\* requested window, route open for booking
passesHardFilters(in) ==
    /\ in.availableSeats > 0
    /\ MinuteOfDay(in.departure) >= MinuteOfDay(in.window[1])
    /\ MinuteOfDay(in.departure) <= MinuteOfDay(in.window[2])
    /\ in.status = "open"

NoInput == [status |-> "none"]
NoResult == [status |-> "none"]
Excluded == [status |-> "excluded"]

\* score(query, candidate): the four sub-scores and the final score
score(in) ==
    LET location == locationScore(in.queryLoc, in.candLoc, in.facts)
        time == timeScore(timeGap(in.window, in.departure))
        efficiency == efficiencyScore(in.detour)
        availability == availabilityScore(in.availableSeats, in.highRating,
                                          in.verified)
    IN  [status |-> "scored", location |-> location, time |-> time,
         efficiency |-> efficiency, availability |-> availability,
         score |-> finalScore(location, time, efficiency, availability)]

\* one candidate goes through the hard filters and, if it passes, the scorer
Score ==
    /\ matchResult = NoResult
    /\ matchResult' = IF passesHardFilters(scoreInput) THEN score(scoreInput)
                      ELSE Excluded
    /\ UNCHANGED scoreInput
    /\ UNCHANGED engineVars
    /\ UNCHANGED uiVars
    /\ UNCHANGED searchVars
    /\ UNCHANGED validateVars
    /\ UNCHANGED checkoutVars
    /\ UNCHANGED callbackVars

\* no query has been scored
InitScoreIdle ==
    /\ scoreInput = NoInput
    /\ matchResult = NoResult

(***************************************************************************)
(* Token text SEAT-{bookingId}-{hash} and its validation (backend)         *)
(***************************************************************************)
\* SHA256 over booking ID, route ID, rider ID, amount and timestamp, taken as
\* free of collisions: two hashes are equal only if the five values are
sha256(details) ==
    <<"sha256", details.bookingId, details.routeId, details.riderId,
      details.amount, details.timestamp>>

\* the token minted for a booking: SEAT-{bookingId}-{hash}, as its parts
\* between the dashes
mint(details) == <<"SEAT", details.bookingId, sha256(details)>>

\* 1. token format validation (SEAT-{id}-{hash})
wellFormed(payload) == Len(payload) = 3 /\ payload[1] = "SEAT"

validate_NoHashCheck(payload, details) ==
    IF ~wellFormed(payload) THEN [parsed |-> << >>, ok |-> FALSE]
    ELSE [parsed |-> <<payload[2], payload[3]>>,
          ok |-> payload[2] = details.bookingId]

\* validate(tokenPayload): format, booking ID match, hash integrity; a text
\* that does not parse is answered like a wrong hash, with ok = false
validate(payload, details) ==
    IF ~wellFormed(payload) THEN [parsed |-> << >>, ok |-> FALSE]
    ELSE [parsed |-> <<payload[2], payload[3]>>,
          ok |-> /\ payload[2] = details.bookingId
                 /\ payload[3] = sha256(details)]

NoPayload == <<"none">>
NoValidation == [parsed |-> << >>, ok |-> FALSE]
NoDetails == [bookingId |-> 0, routeId |-> 0, riderId |-> 0, amount |-> 0,
              timestamp |-> 0]

\* a token text arrives and is validated against the stored booking
Validate(payload) ==
    /\ tokenPayload' = payload
    /\ validation' = validate(payload, storedBooking)
    /\ UNCHANGED storedBooking
    /\ UNCHANGED engineVars
    /\ UNCHANGED uiVars
    /\ UNCHANGED searchVars
    /\ UNCHANGED scoreVars
    /\ UNCHANGED checkoutVars
    /\ UNCHANGED callbackVars

\* no token has been handed to validate
InitValidateIdle ==
    /\ storedBooking = NoDetails
    /\ tokenPayload = NoPayload
    /\ validation = NoValidation

(***************************************************************************)
(* Checkout page and Interswitch payment modal (frontend)                  *)
(***************************************************************************)
\* the paymentParams prop when the parent passes none
NoParams == [mode |-> "none", txn_ref |-> ""]
\* payment parameters of the TEST environment
TestParams == [mode |-> "TEST", txn_ref |-> "OPENSEAT-1"]

\* every handler below leaves the other parts alone
CheckoutOnly ==
    /\ UNCHANGED engineVars
    /\ UNCHANGED uiVars
    /\ UNCHANGED searchVars
    /\ UNCHANGED scoreVars
    /\ UNCHANGED validateVars
    /\ UNCHANGED callbackVars

\* handleProceedToPayment: the page shows the modal, which mounts in step
\* "info" and appends the inline checkout script
HandleProceedToPayment ==
    /\ pageStep = "review"
    /\ pageStep' = "payment"
    /\ modalStep' = "info"
    /\ scriptLoaded' = FALSE
    /\ errorMessage' = ""
    /\ script' = "loading"
    /\ gateway' = "idle"
    /\ successTimer' = FALSE
    /\ lastResp' = "none"
    /\ UNCHANGED paymentParams
    /\ CheckoutOnly

\* script.onload
ScriptOnload ==
    /\ script = "loading"
    /\ script' = "loaded"
    /\ scriptLoaded' = TRUE
    /\ UNCHANGED <<pageStep, paymentParams, modalStep, errorMessage, gateway,
                   successTimer, lastResp>>
    /\ CheckoutOnly

\* script.onerror
ScriptOnerror ==
    /\ script = "loading"
    /\ script' = "failed"
    /\ errorMessage' = "Failed to load payment gateway"
    /\ modalStep' = "error"
    /\ UNCHANGED <<pageStep, paymentParams, scriptLoaded, gateway, successTimer,
                   lastResp>>
    /\ CheckoutOnly

\* handlePayment from the pay button, which is disabled while the script is
\* not loaded or the payment parameters are missing; threw: webpayCheckout
\* raised
HandlePayment(threw) ==
    /\ modalStep = "info"
    /\ ~(~scriptLoaded \/ paymentParams = NoParams)
    /\ IF ~scriptLoaded
       THEN /\ errorMessage' = "Payment gateway is still loading"
            /\ UNCHANGED <<modalStep, gateway>>
       ELSE IF paymentParams = NoParams
       THEN /\ errorMessage' = "Payment parameters not available"
            /\ modalStep' = "error"
            /\ UNCHANGED gateway
       ELSE IF threw
       THEN /\ modalStep' = "error"
            /\ errorMessage' = "Failed to initiate payment"
            /\ UNCHANGED gateway
       ELSE /\ modalStep' = "processing"
            /\ gateway' = "open"
            /\ UNCHANGED errorMessage
    /\ lastResp' = "none"
    /\ UNCHANGED <<pageStep, paymentParams, scriptLoaded, script, successTimer>>
    /\ CheckoutOnly

paymentCallback_AnyResponse(resp, desc) ==
    [step |-> "success", errorMessage |-> errorMessage, successTimer |-> TRUE]

\* paymentCallback(response): '00' is success and schedules onSuccess, every
\* other code is an error with response.desc or the default message
paymentCallback(resp, desc) ==
    IF resp = "00"
    THEN [step |-> "success", errorMessage |-> errorMessage, successTimer |-> TRUE]
    ELSE [step |-> "error",
          errorMessage |-> IF desc # "" THEN desc
                           ELSE "Payment was not completed",
          successTimer |-> FALSE]

\* the gateway completes the checkout and calls onComplete
PaymentCallback(resp, desc) ==
    /\ gateway = "open"
    /\ gateway' = "idle"
    /\ lastResp' = resp
    /\ modalStep' = paymentCallback(resp, desc).step
    /\ errorMessage' = paymentCallback(resp, desc).errorMessage
    /\ successTimer' = paymentCallback(resp, desc).successTimer
    /\ UNCHANGED <<pageStep, paymentParams, scriptLoaded, script>>
    /\ CheckoutOnly

\* the timer of the success branch fires: onSuccess(txn_ref), which is
\* handlePaymentComplete of the page; the modal is unmounted
SuccessTimer ==
    /\ successTimer
    /\ successTimer' = FALSE
    /\ pageStep' = "confirmation"
    /\ modalStep' = "none"
    /\ script' = "none"
    /\ scriptLoaded' = FALSE
    /\ UNCHANGED <<paymentParams, errorMessage, gateway, lastResp>>
    /\ CheckoutOnly

\* onClose of the modal (Cancel in step info, Close in step error):
\* setStep("review") of the page; the modal is unmounted
OnCloseModal ==
    /\ modalStep \in {"info", "error"}
    /\ pageStep' = "review"
    /\ modalStep' = "none"
    /\ script' = "none"
    /\ scriptLoaded' = FALSE
    /\ errorMessage' = ""
    /\ UNCHANGED <<paymentParams, gateway, successTimer, lastResp>>
    /\ CheckoutOnly

\* handleRetry of the modal
HandleRetryModal ==
    /\ modalStep = "error"
    /\ modalStep' = "info"
    /\ errorMessage' = ""
    /\ UNCHANGED <<pageStep, paymentParams, scriptLoaded, script, gateway,
                   successTimer, lastResp>>
    /\ CheckoutOnly

\* the checkout page is not open
InitCheckoutIdle ==
    /\ pageStep = "review"
    /\ paymentParams = NoParams
    /\ modalStep = "none"
    /\ scriptLoaded = FALSE
    /\ errorMessage = ""
    /\ script = "none"
    /\ gateway = "idle"
    /\ successTimer = FALSE
    /\ lastResp = "none"

(***************************************************************************)
(* Payment callback page (frontend)                                        *)
(***************************************************************************)
NoRequest == [state |-> "none", transaction_ref |-> "", bookingId |-> ""]
NoTimer == << >>
ClearedStorage == [pending_payment_ref |-> "", pending_booking_id |-> ""]

\* every handler below leaves the other parts alone
CallbackOnly ==
    /\ UNCHANGED engineVars
    /\ UNCHANGED uiVars
    /\ UNCHANGED searchVars
    /\ UNCHANGED scoreVars
    /\ UNCHANGED validateVars
    /\ UNCHANGED checkoutVars

\* verifyPayment up to its await: without a transaction reference in the URL
\* and in localStorage it ends in error, otherwise it posts the reference
VerifyPayment ==
    /\ pathname = <<"/payment/callback">>
    /\ status = "verifying"
    /\ request.state = "none"
    /\ LET txnRef == searchParams.txnref
           storedTxnRef == localStorage.pending_payment_ref
           bookingId == localStorage.pending_booking_id
       IN  IF txnRef = "" /\ storedTxnRef = ""
           THEN /\ status' = "error"
                /\ message' = "No transaction reference found"
                /\ UNCHANGED request
           ELSE /\ request' = [state |-> "pending",
                               transaction_ref |-> IF txnRef # "" THEN txnRef
                                                   ELSE storedTxnRef,
                               bookingId |-> bookingId]
                /\ UNCHANGED <<status, message>>
    /\ UNCHANGED <<searchParams, localStorage, response, redirectTimer, pathname>>
    /\ CallbackOnly

verified_AnyStatus(verificationData) == TRUE

\* verificationData.status === 'successful'
verified(verificationData) == verificationData.status = "successful"

\* verifyPayment after its await, the response of the backend at hand
VerifyResponse(verificationData) ==
    /\ request.state = "pending"
    /\ request' = [request EXCEPT !.state = "done"]
    /\ response' = verificationData.status
    /\ IF verified(verificationData)
       THEN /\ status' = "success"
            /\ message' = "Payment successful"
            /\ localStorage' = ClearedStorage
            /\ redirectTimer' = <<"/booking", request.bookingId, "success">>
       ELSE /\ status' = "failed"
            /\ message' = IF verificationData.response_description # ""
                          THEN verificationData.response_description
                          ELSE "Payment verification failed"
            /\ UNCHANGED <<localStorage, redirectTimer>>
    /\ UNCHANGED <<searchParams, pathname>>
    /\ CallbackOnly

\* verifyPayment after its await, the request rejected: the catch block
VerifyError(errorText) ==
    /\ request.state = "pending"
    /\ request' = [request EXCEPT !.state = "done"]
    /\ response' = "error"
    /\ status' = "error"
    /\ message' = IF errorText # "" THEN errorText
                  ELSE "An error occurred while verifying your payment"
    /\ UNCHANGED <<searchParams, localStorage, redirectTimer, pathname>>
    /\ CallbackOnly

\* the timer of the success branch fires: router.push of the booking page
RedirectTimer ==
    /\ redirectTimer # NoTimer
    /\ pathname' = redirectTimer
    /\ redirectTimer' = NoTimer
    /\ UNCHANGED <<status, message, searchParams, localStorage, request, response>>
    /\ CallbackOnly

\* handleRetry of the callback page
HandleRetry ==
    /\ pathname = <<"/payment/callback">>
    /\ status \in {"failed", "error"}
    /\ pathname' = IF localStorage.pending_booking_id # ""
                   THEN <<"/payment", localStorage.pending_booking_id>>
                   ELSE <<"/bookings">>
    /\ UNCHANGED <<status, message, searchParams, localStorage, request, response,
                   redirectTimer>>
    /\ CallbackOnly

\* handleGoHome of the callback page
HandleGoHome ==
    /\ pathname = <<"/payment/callback">>
    /\ status \in {"failed", "error"}
    /\ localStorage' = ClearedStorage
    /\ pathname' = <<"/">>
    /\ UNCHANGED <<status, message, searchParams, request, response, redirectTimer>>
    /\ CallbackOnly

\* the callback page is not open
InitCallbackIdle ==
    /\ status = "verifying"
    /\ message = "Verifying your payment"
    /\ searchParams = [txnref |-> ""]
    /\ localStorage = ClearedStorage
    /\ request = NoRequest
    /\ response = "none"
    /\ redirectTimer = NoTimer
    /\ pathname = <<"/">>

\* nothing has happened in the parts added after the route search
InitRest == InitScoreIdle /\ InitValidateIdle /\ InitCheckoutIdle /\ InitCallbackIdle

InitEngine ==
    /\ booking = [b \in BookingIds |-> NoBooking]
    /\ tokens = {}
    /\ avail = [c \in Candidates |-> Capacity]
    /\ now = 0
    /\ ticks = 0
    /\ calls = [p \in Redeemers |-> NoCall]
    /\ last = NoLast

InitDashboard ==
    /\ bookings = << [routeId |-> 1, status |-> "Confirmed", seats |-> 1,
                      totalPrice |-> 1500] >>
    /\ searchResults = << >>
    /\ hasSearched = FALSE
    /\ activeTab = "search"
    /\ selectedRoute = 0
    /\ showBookingModal = FALSE
    /\ seats = 1

Init ==
    /\ InitEngine
    /\ InitDashboard
    /\ candidates = allRoutes
    /\ query = << >>
    /\ ranked = << >>
    /\ InitRest

Next ==
    \/ \E c \in Candidates, n \in SeatChoices : CreateBooking(c, n)
    \/ \E b \in BookingIds, a \in Amounts : ConfirmPayment(b, a)
    \/ \E b \in BookingIds : Verify(b)
    \/ \E p \in Redeemers, b \in BookingIds, d \in Drivers : RedeemInvoke(p, b, d)
    \/ \E p \in Redeemers : RedeemExec(p)
    \/ \E b \in BookingIds : Cancel(b)
    \/ \E d \in TimeSteps : Tick(d)

Spec == Init /\ [][Next]_vars

NextDashboard ==
    \/ \E from \in locations, to \in locations, timeRange \in timeRanges :
           HandleSearch(from, to, timeRange)
    \/ \E r \in RouteIds : BookSeat(r)
    \/ SeatsPlus
    \/ SeatsMinus
    \/ OnClose
    \/ OnConfirm
    \/ \E tab \in {"search", "bookings"} : SetActiveTab(tab)

SpecDashboard == Init /\ [][NextDashboard]_vars

(***************************************************************************)
(* Route search as a function of the list of routes it is given            *)
(***************************************************************************)
\* the routes a list may hold: some with no seat left, some with equal scores
CandidateRoutes ==
    [id : 1..MaxCandidates, from : {"Ogba", "Ikeja"}, to : {"VI"},
     departureTime : {<<6, 30, "AM">>, <<8, 30, "AM">>}, driverRating : {48},
     availableSeats : 0..2,
     pricePerSeat : {1500}, aiScore : {88, 95}, bookings : {0}]

\* the lists of up to MaxCandidates routes, numbered 1..k in any order
CandidateLists ==
    UNION {{rs \in [1..k -> CandidateRoutes] :
               /\ \A i \in 1..k : rs[i].id \in 1..k
               /\ \A i, j \in 1..k : i # j => rs[i].id # rs[j].id}
           : k \in 0..MaxCandidates}

\* the search parameters: from, to, timeRange
SearchQueries ==
    {<<from, "VI", timeRange>> :
         from \in {"Ogba", "Ikeja"},
         timeRange \in {<<<<6, 0>>, <<8, 0>>>>, <<<<7, 0>>, <<9, 0>>>>}}

InitSearch ==
    /\ InitEngine
    /\ InitDashboard
    /\ candidates \in CandidateLists
    /\ query = << >>
    /\ ranked = << >>
    /\ InitRest

\* handleSearch applied to the list of routes
Search(q) ==
    /\ query' = q
    /\ ranked' = handleSearch(candidates, q[1], q[2], q[3])
    /\ UNCHANGED candidates
    /\ UNCHANGED engineVars
    /\ UNCHANGED uiVars
    /\ UNCHANGED restVars

NextSearch == \E q \in SearchQueries : Search(q)

SpecSearch == InitSearch /\ [][NextSearch]_vars

(***************************************************************************)
(* Scoring of one query and one candidate                                  *)
(***************************************************************************)
ScoreWindows == {<<<<6, 0>>, <<8, 0>>>>, <<<<5, 0>>, <<10, 0>>>>}
Departures == {<<5, 0, "AM">>, <<5, 29, "AM">>, <<5, 30, "AM">>, <<6, 29, "AM">>,
               <<6, 30, "AM">>, <<6, 59, "AM">>, <<7, 0, "AM">>, <<7, 14, "AM">>,
               <<7, 15, "AM">>, <<7, 30, "AM">>}
Detours == {"direct", "minimal", "moderate", "long"}
ScoreInputs ==
    [status : {"open", "closed"}, queryLoc : {"Ogba"}, candLoc : {"Ogba", "Ikeja"},
     facts : ProximityFacts, window : ScoreWindows, departure : Departures,
     detour : Detours, availableSeats : {0, 3}, highRating : BOOLEAN,
     verified : BOOLEAN]

InitScore ==
    /\ InitEngine
    /\ InitDashboard
    /\ candidates = allRoutes
    /\ query = << >>
    /\ ranked = << >>
    /\ scoreInput \in ScoreInputs
    /\ matchResult = NoResult
    /\ InitValidateIdle
    /\ InitCheckoutIdle
    /\ InitCallbackIdle

NextScore == Score

SpecScore == InitScore /\ [][NextScore]_vars

(***************************************************************************)
(* Validation of token texts against one stored booking                    *)
(***************************************************************************)
BookingDetails ==
    [bookingId : 1..MaxBookings, routeId : {1}, riderId : {1, 2},
     amount : {PricePerSeat, 2 * PricePerSeat}, timestamp : {0, 1}]
\* what can stand in the hash part of a token text
Hashes == {sha256(d) : d \in BookingDetails} \cup {<<"junk">>}
\* token texts: well formed ones, ones with another prefix, ones cut short
Payloads ==
    {<<prefix, id, hash>> :
         prefix \in {"SEAT", "TICKET"}, id \in 1..MaxBookings, hash \in Hashes}
        \cup {<<"SEAT", id>> : id \in 1..MaxBookings} \cup {<< >>}

InitValidate ==
    /\ InitEngine
    /\ InitDashboard
    /\ candidates = allRoutes
    /\ query = << >>
    /\ ranked = << >>
    /\ InitScoreIdle
    /\ storedBooking \in BookingDetails
    /\ tokenPayload = NoPayload
    /\ validation = NoValidation
    /\ InitCheckoutIdle
    /\ InitCallbackIdle

NextValidate == \E payload \in Payloads : Validate(payload)

SpecValidate == InitValidate /\ [][NextValidate]_vars

(***************************************************************************)
(* Payment in the frontend: the checkout page with the modal, for the      *)
(* payment parameters the modal may be given (CheckoutPage passes none),   *)
(* and the payment callback page, opened with or without a transaction     *)
(* reference in its URL and in localStorage                                *)
(***************************************************************************)
\* answers of POST /payments/verify
VerificationData ==
    [status : {"successful", "pending", "failed"},
     response_description : {"", "Declined"}]

InitCallback ==
    /\ status = "verifying"
    /\ message = "Verifying your payment"
    /\ searchParams \in [txnref : {"", "OPENSEAT-1"}]
    /\ localStorage \in [pending_payment_ref : {"", "OPENSEAT-1"},
                         pending_booking_id : {"", "B1"}]
    /\ request = NoRequest
    /\ response = "none"
    /\ redirectTimer = NoTimer
    /\ pathname = <<"/payment/callback">>

NextCallback ==
    \/ VerifyPayment
    \/ \E verificationData \in VerificationData : VerifyResponse(verificationData)
    \/ \E errorText \in {"", "Unauthorized"} : VerifyError(errorText)
    \/ RedirectTimer
    \/ HandleRetry
    \/ HandleGoHome

\* completion responses of the gateway: approved, cancelled, declined
Responses == {<<"00", "Approved">>, <<"Z6", "">>, <<"51", "Insufficient funds">>}

InitPayment ==
    /\ InitEngine
    /\ InitDashboard
    /\ candidates = allRoutes
    /\ query = << >>
    /\ ranked = << >>
    /\ InitScoreIdle
    /\ InitValidateIdle
    /\ InitCallback
    /\ pageStep = "review"
    /\ paymentParams \in {NoParams, TestParams}
    /\ modalStep = "none"
    /\ scriptLoaded = FALSE
    /\ errorMessage = ""
    /\ script = "none"
    /\ gateway = "idle"
    /\ successTimer = FALSE
    /\ lastResp = "none"

NextCheckout ==
    \/ HandleProceedToPayment
    \/ ScriptOnload
    \/ ScriptOnerror
    \/ \E threw \in BOOLEAN : HandlePayment(threw)
    \/ \E completion \in Responses : PaymentCallback(completion[1], completion[2])
    \/ SuccessTimer
    \/ OnCloseModal
    \/ HandleRetryModal

NextPayment == NextCheckout \/ NextCallback

SpecPayment == InitPayment /\ [][NextPayment]_vars

\* the browser delivers the load event and fires the timer; the rider keeps
\* going: proceeds to payment, leaves a modal that cannot pay, presses the
\* pay button whenever it comes up again, and the gateway approves a payment
\* of a rider who keeps paying
SpecPaymentFair ==
    /\ InitPayment
    /\ [][NextPayment]_vars
    /\ WF_vars(HandleProceedToPayment)
    /\ WF_vars(OnCloseModal)
    /\ WF_vars(SuccessTimer)
    /\ SF_vars(ScriptOnload)
    /\ SF_vars(HandlePayment(FALSE))
    /\ SF_vars(PaymentCallback("00", "Approved"))

(***************************************************************************)
(* Properties of the booking verification engine                           *)
(***************************************************************************)
Redeemed(b) == Exists(b) /\ \E t \in TokensOf(b) : t.redeemed
Unpaid(b) == Exists(b) /\ booking[b].state \in {"created", "paid", "cancelled"}
Expired(b) == Exists(b) /\ TokensOf(b) # {} /\ now >= TokenOf(b).expiresAt

\* the redeem calls that ran on a valid token of b with the candidate's driver
ValidDone(b) ==
    {p \in Redeemers : calls[p].phase = "done" /\ calls[p].b = b /\ calls[p].valid}

\* C1: of the concurrent redeem calls for the same valid token (booking paid,
\* token not expired, the candidate's driver) exactly one succeeds, every other
\* one returns AlreadyRedeemedError, and the booking ends redeemed with
\* redeemed = true
C1_ExactlyOnce ==
    \A b \in BookingIds :
        ValidDone(b) # {} =>
            /\ Cardinality({p \in ValidDone(b) : calls[p].res = "ok"}) = 1
            /\ \A p \in ValidDone(b) :
                   calls[p].res \in {"ok", "AlreadyRedeemedError"}
            /\ Cardinality({p \in Redeemers : calls[p].phase = "done"
                               /\ calls[p].b = b /\ calls[p].res = "ok"}) = 1
            /\ booking[b].state = "redeemed"
            /\ TokensOf(b) # {} /\ \A t \in TokensOf(b) : t.redeemed

\* every handler has redeemed the same valid token: one won, the others lost
C1_Witness ==
    \E b \in BookingIds :
        /\ ValidDone(b) = Redeemers
        /\ \E p \in Redeemers : calls[p].res = "AlreadyRedeemedError"

C8_ConfirmOnlyFromCreated ==
    [][\A b \in BookingIds, a \in Amounts :
          ConfirmPayment(b, a) /\ Exists(b) =>
              IF booking[b].state # "created"
              THEN /\ last'.res = "StateError"
                   /\ UNCHANGED <<booking, tokens, avail>>
              ELSE last'.res = "ok" =>
                   /\ booking'[b].state = "token_issued"
                   /\ Cardinality({t \in tokens' : t.bookingId = b}) = 1
                   /\ \A x \in BookingIds \ {b} : booking'[x] = booking[x]]_vars

\* a second confirmPayment on a booking that is already token_issued failed
C8_Witness ==
    /\ last.op = "confirmPayment" /\ last.res = "StateError"
    /\ booking[last.b].state = "token_issued"
    /\ Cardinality(TokensOf(last.b)) = 1

\* C9: confirmPayment with an amount other than seats x price fails with
\* AmountMismatchError, leaves the booking in created, mints no token and
\* leaves the seat reservation unchanged
C9_AmountMismatch ==
    [][\A b \in BookingIds, a \in Amounts :
          (/\ ConfirmPayment(b, a)
           /\ booking[b].state = "created"
           /\ a # booking[b].seats * PricePerSeat) =>
              /\ last'.res = "AmountMismatchError"
              /\ booking'[b].state = "created"
              /\ UNCHANGED <<booking, tokens, avail>>]_vars

\* a payment of the wrong amount was refused and the booking is still created
C9_Witness ==
    /\ last.op = "confirmPayment" /\ last.res = "AmountMismatchError"
    /\ booking[last.b].state = "created"
    /\ avail[booking[last.b].cand] = Capacity - Booked(booking[last.b].cand)

C11_VerifyReadOnly ==
    [][\A b \in BookingIds :
          Verify(b) =>
              /\ UNCHANGED <<booking, tokens, avail>>
              /\ last'.res \in Outcomes
              /\ last'.res = verify(b, now).message]_vars

\* verify answered expired for a paid booking past its TTL, which is still
\* token_issued with an unredeemed token
C11_Witness ==
    /\ last.op = "verify" /\ last.res = "expired"
    /\ booking[last.b].state = "token_issued"
    /\ ~TokenOf(last.b).redeemed
    /\ Expired(last.b)

C14_Unauthorized ==
    [][\A p \in Redeemers, b \in BookingIds :
          (/\ RedeemExec(p) /\ calls[p].b = b
           /\ verify_booking_token(b, now) = "valid"
           /\ calls[p].drv # DriverOf(booking[b].cand)) =>
              /\ calls'[p].res = "UnauthorizedError"
              /\ UNCHANGED <<booking, tokens, avail>>
              /\ booking'[b].state = "token_issued"
              /\ \A t \in tokens' : t.bookingId = b => ~t.redeemed
              /\ redeemResult(b, DriverOf(booking[b].cand), now)' = "ok"]_vars

\* a stranger was refused and the rightful driver redeemed the token afterwards
C14_Witness ==
    \E p, q \in Redeemers :
        /\ calls[p].phase = "done" /\ calls[p].res = "UnauthorizedError"
        /\ calls[q].phase = "done" /\ calls[q].res = "ok"
        /\ calls[p].b = calls[q].b
        /\ booking[calls[q].b].state = "redeemed"

\* C15: cancel succeeds only for a booking in created or paid; it then gives
\* exactly the booking's seats back to the candidate and the booking becomes
\* cancelled; for a booking in any other state it fails and changes neither
\* the booking's state nor a seat counter
C15_CancelOnlyBeforePayment ==
    [][\A b \in BookingIds :
          (Cancel(b) /\ Exists(b)) =>
              IF booking[b].state \in {"created", "paid"}
              THEN /\ last'.res = "ok"
                   /\ booking'[b].state = "cancelled"
                   /\ \A x \in BookingIds \ {b} : booking'[x] = booking[x]
                   /\ avail' = [avail EXCEPT ![booking[b].cand] = @ + booking[b].seats]
              ELSE /\ last'.res = "StateError"
                   /\ UNCHANGED <<booking, tokens, avail>>]_vars

\* a booking was cancelled and its seats are available again
C15_Witness ==
    /\ last.op = "cancel" /\ last.res = "ok"
    /\ booking[last.b].state = "cancelled"
    /\ avail[booking[last.b].cand] = Capacity

Edges == {<<"none", "created">>, <<"created", "paid">>, <<"paid", "token_issued">>,
          <<"created", "token_issued">>, <<"token_issued", "redeemed">>,
          <<"created", "cancelled">>, <<"paid", "cancelled">>,
          <<"token_issued", "expired">>}

\* C17: a booking's state changes only along created -> paid -> token_issued
\* -> redeemed, created or paid -> cancelled and token_issued -> expired;
\* redeemed, cancelled and expired are terminal
C17_DeclaredEdges ==
    [][\A b \in BookingIds :
          /\ booking'[b].state # booking[b].state =>
                 <<booking[b].state, booking'[b].state>> \in Edges
          /\ booking[b].state \in {"redeemed", "cancelled", "expired"} =>
                 booking'[b] = booking[b]]_vars

\* every terminal state was reached, and operations kept coming afterwards
C17_Witness ==
    /\ \E b \in BookingIds : booking[b].state \in {"cancelled", "expired"}
    /\ \E b \in BookingIds :
           /\ booking[b].state = "redeemed"
           /\ last.op = "cancel" /\ last.b = b /\ last.res = "StateError"
           /\ \E p \in Redeemers : calls[p].phase = "done" /\ calls[p].b = b
                                   /\ calls[p].res = "AlreadyRedeemedError"

\* C18 (as stated): repeating the same create after it has taken effect
\* reserves no seats a second time and leaves bookings, tokens and seat
\* counters as they were after the first application
C18_Original ==
    [][\A c \in Candidates, n \in SeatChoices :
          (/\ CreateBooking(c, n)
           /\ last.op = "create" /\ last.res = "ok"
           /\ booking[last.b].state = "created"
           /\ booking[last.b].cand = c /\ booking[last.b].seats = n) =>
              UNCHANGED <<booking, tokens, avail>>]_vars

(***************************************************************************)
(* Properties of seat accounting, stated on the rider dashboard            *)
(***************************************************************************)
\* the numbers of the bookings made through handleBooking
Made == 2..Len(bookings)

\* C2 (as stated): two createBooking calls for the same candidate are never
\* both successful when their combined seat count exceeds the seats available
C2_Original ==
    \A i, j \in Made :
        (i < j /\ bookings[i].routeId = bookings[j].routeId) =>
            bookings[i].seats + bookings[j].seats
                <= allRoutes[bookings[i].routeId].availableSeats

\* C3 (as stated): the seats booked for a candidate never exceed its capacity
C3_Original ==
    \A r \in RouteIds : bookedSeats(r) <= capacityOf(r)

\* C4 (as stated): booked seats plus available seats equals the capacity
C4_Original ==
    \A r \in RouteIds :
        bookedSeats(r) + allRoutes[r].availableSeats = capacityOf(r)

\* C5 (as stated): a createBooking that asks for more seats than remain fails
\* and changes no state, so every booking in the list fitted into the seats
\* that remained when it was made
C5_Original ==
    \A k \in Made :
        \A r \in RouteIds :
            bookings[k].routeId = allRoutes[r].id =>
                bookings[k].seats
                    <= allRoutes[r].availableSeats - seatsBookedUpTo(r, k - 1)

(***************************************************************************)
(* Properties of the route search                                          *)
(***************************************************************************)
\* the routes of the list that the query asks for, whatever their seats
Asked(route) ==
    query # << >> /\ matches_NoSeatCheck(route, query[1], query[2], query[3])

\* C19: whatever the query and the list of routes, the search result never
\* holds a route with zero available seats
C19_NoZeroSeats ==
    \A i \in 1..Len(ranked) : ranked[i].availableSeats > 0

\* a route the query asks for has no seat left and is not in the result, while
\* another one is
C19_Witness ==
    /\ \E i \in 1..Len(candidates) :
           /\ Asked(candidates[i]) /\ candidates[i].availableSeats = 0
           /\ \A k \in 1..Len(ranked) : ranked[k].id # candidates[i].id
    /\ Len(ranked) >= 1

\* the order the ranking is to have: higher score first; with equal scores
\* higher seat availability first, then higher driver rating, then the
\* smaller identifier
RankedBefore(a, b) ==
    \/ a.aiScore > b.aiScore
    \/ /\ a.aiScore = b.aiScore
       /\ \/ a.availableSeats > b.availableSeats
          \/ /\ a.availableSeats = b.availableSeats
             /\ \/ a.driverRating > b.driverRating
                \/ a.driverRating = b.driverRating /\ a.id < b.id

Reorderings(rs) ==
    {[i \in 1..Len(rs) |-> rs[f[i]]] :
         f \in {g \in [1..Len(rs) -> 1..Len(rs)] :
                   \A i, j \in 1..Len(rs) : i # j => g[i] # g[j]}}

Scored == matchResult.status = "scored"

C24_TimeMonotone ==
    Scored =>
        LET gap == timeGap(scoreInput.window, scoreInput.departure)
        IN  /\ gap <= 15 => matchResult.time = 100
            /\ gap > 15 /\ gap <= 30 => matchResult.time = 80
            /\ gap > 30 /\ gap <= 60 => matchResult.time = 60
            /\ gap > 60 /\ gap <= 120 => matchResult.time = 40
            /\ gap > 120 => matchResult.time = 0
            /\ \A d \in Departures :
                   timeGap(scoreInput.window, d) <= gap =>
                       score([scoreInput EXCEPT !.departure = d]).time
                           >= matchResult.time

\* a candidate between one and two hours off the anchor, and another
\* departure that is closer and scores more
C24_Witness ==
    /\ Scored
    /\ matchResult.time = 40
    /\ \E d \in Departures :
           /\ timeGap(scoreInput.window, d)
                  < timeGap(scoreInput.window, scoreInput.departure)
           /\ score([scoreInput EXCEPT !.departure = d]).time > 40

C27_FailsClosed ==
    tokenPayload # NoPayload =>
        /\ validation.ok \in BOOLEAN
        /\ (Len(tokenPayload) # 3 \/ tokenPayload[1] # "SEAT") => ~validation.ok
        /\ (Len(tokenPayload) = 3 /\ tokenPayload[3] # sha256(storedBooking)) =>
               ~validation.ok
        /\ validation.ok => tokenPayload = mint(storedBooking)

\* a token text of the right booking whose hash was computed over another
\* amount is turned down
C27_Witness ==
    /\ tokenPayload # NoPayload
    /\ Len(tokenPayload) = 3
    /\ tokenPayload[1] = "SEAT"
    /\ tokenPayload[2] = storedBooking.bookingId
    /\ \E d \in BookingDetails :
           /\ d.amount # storedBooking.amount
           /\ d = [storedBooking EXCEPT !.amount = d.amount]
           /\ tokenPayload[3] = sha256(d)
    /\ ~validation.ok

(***************************************************************************)
(* Properties of the payment in the frontend                               *)
(***************************************************************************)
\* C28 (as stated): from the review step of CheckoutPage, which passes no
\* payment parameters to the modal, a rider who keeps going reaches the
\* confirmation step
C28_Original == (paymentParams = NoParams) => <>(pageStep = "confirmation")

\* C29: the page enters the confirmation step only from the payment step and
\* only after the completion callback reported '00'; onSuccess is scheduled
\* by a '00' completion and by nothing else, so a payment that failed, was
\* cancelled or could not start never gets there; closing the modal returns
\* to review
C29_ConfirmationOnlyAfter00 ==
    [][/\ (pageStep' = "confirmation" /\ pageStep # "confirmation") =>
              (pageStep = "payment" /\ lastResp = "00")
       /\ (successTimer' /\ ~successTimer) => lastResp' = "00"
       /\ (lastResp' # "00" /\ lastResp' # lastResp) =>
              (~successTimer' /\ pageStep' = "payment")
       /\ OnCloseModal => pageStep' = "review"]_vars

\* a cancelled payment: the page is still on the payment step, the modal
\* shows the error, and no onSuccess is on its way
C29_Witness ==
    /\ pageStep = "payment"
    /\ modalStep = "error"
    /\ lastResp = "Z6"
    /\ ~successTimer

\* C30: the callback page leaves the verifying status once, for success,
\* failed or error: success, with the pending references cleared and the
\* redirect scheduled, exactly when the backend answered 'successful'; failed
\* for any other answer and error for a rejected request, both keeping the
\* pending references; and error without a request to the backend when
\* neither the URL nor localStorage holds a transaction reference
C30_OneVerdict ==
    [][status' # status =>
           /\ status = "verifying"
           /\ status' \in {"success", "failed", "error"}
           /\ status' = "success" <=> response' = "successful"
           /\ status' = "success" =>
                  /\ localStorage' = ClearedStorage
                  /\ redirectTimer' = <<"/booking", localStorage.pending_booking_id,
                                        "success">>
           /\ status' = "failed" <=> response' \notin {"successful", "error", "none"}
           /\ status' = "error" <=> response' \in {"error", "none"}
           /\ status' \in {"failed", "error"} =>
                  /\ localStorage' = localStorage
                  /\ redirectTimer' = NoTimer
           /\ (searchParams.txnref = "" /\ localStorage.pending_payment_ref = "") <=>
                  (status' = "error" /\ request'.state = "none")]_vars

\* the backend answered that the payment is still pending: the page shows
\* failed and the pending references are still stored
C30_Witness ==
    /\ status = "failed"
    /\ response = "pending"
    /\ localStorage.pending_payment_ref = "OPENSEAT-1"
    /\ localStorage.pending_booking_id = "B1"
    /\ redirectTimer = NoTimer

====
